---- MODULE Spec2Model ----
(***************************************************************************)
(* AmemDSPy: the AgenticMemorySystem (agentic_memory/memory_system.py),    *)
(* its MemoryNote records (memory_note.py) and the ChromaDB collection     *)
(* behind the ChromaRetriever (retrievers.py), as a state machine.         *)
(*                                                                         *)
(* Python values are tagged pairs <<type, payload>>: <<"str", s>>,         *)
(* <<"int", n>>, <<"bool", b>>, <<"list", seq>>, <<"dict", f>>,            *)
(* <<"datetime", t>>, <<"note", r>> and <<"None", "None">>.  A MemoryNote  *)
(* is a record whose fields hold the payloads of their declared types.     *)
(* A serialized (flat) value is tagged by how it was produced:             *)
(* <<"iso", t>> is the string datetime.isoformat() gives for t,            *)
(* <<"jsonl", seq>> / <<"jsono", f>> the string json.dumps gives for a     *)
(* list / a dict.  Time is a counter: every datetime.now() call returns    *)
(* the counter and advances it.                                            *)
(***************************************************************************)
EXTENDS Integers, Sequences, FiniteSets, TLC

\* Latest instant datetime.now() may return: bounds the number of add_note
\* and read calls of a behaviour.
MaxClock == 4

\* Largest k passed to search.
MaxK == 2

\* Most records the record map holds where the fields of the records are
\* followed through field overrides.
MaxRecords == 2

VARIABLES
    memories,     \* AgenticMemorySystem.memories: id -> MemoryNote
    memOrder,     \* insertion order of the keys of memories (dict order)
    collection,   \* retriever.collection: id -> [document, metadata]
    collOrder,    \* insertion order of the ids of the collection
    clock,        \* the next value of datetime.now(timezone.utc)
    call,         \* the last call made on the system and its arguments
    ret,          \* how that call ended: [kind |-> "return" | "raise", value]
    persistent,   \* the PersistentClient directory: its named collections,
                  \* and the name the PersistentChromaRetriever in use opened
    threads       \* the update calls in flight: each thread's position and
                  \* the values it holds

vars == <<memories, memOrder, collection, collOrder, clock, call, ret,
          persistent, threads>>

------------------------------------------------------------------------------
\* Python values

None == <<"None", "None">>
PyStr(s) == <<"str", s>>
PyInt(n) == <<"int", n>>
PyBool(b) == <<"bool", b>>
PyList(l) == <<"list", l>>
PyDict(d) == <<"dict", d>>
PyDateTime(t) == <<"datetime", t>>

EmptyDict == [key \in {} |-> ""]

\* d[k] = v, as a dict assignment does it.
DictSet(d, k, v) == [x \in (DOMAIN d) \cup {k} |-> IF x = k THEN v ELSE d[x]]

\* The key order of a dict after d[k] = v: a new key goes last, an existing
\* key keeps its place.
OrderSet(order, d, k) == IF k \in DOMAIN d THEN order ELSE Append(order, k)

Digits == <<"0", "1", "2", "3", "4", "5", "6", "7", "8", "9">>

RECURSIVE NatToStr(_)
NatToStr(n) ==
    IF n < 10 THEN Digits[n + 1]
    ELSE NatToStr(n \div 10) \o Digits[(n % 10) + 1]

\* str(n) for an int n.
IntToStr(n) == IF n < 0 THEN "-" \o NatToStr(0 - n) ELSE NatToStr(n)

\* str(value), for the values callers pass as free-form attributes.
str(value) ==
    CASE value[1] = "str" -> value[2]
      [] value[1] = "int" -> IntToStr(value[2])

\* isinstance(value, str)
IsStr(value) == value[1] = "str"

------------------------------------------------------------------------------
\* The field registry (field_handlers.py)

\* The handler registered for each field of a MemoryNote.
memory_note_field_registry ==
    [content |-> "String", id |-> "String", keywords |-> "List",
     retrieval_count |-> "Int", timestamp |-> "DateTime",
     last_accessed |-> "DateTime", context |-> "String",
     category |-> "String", tags |-> "List",
     memory_update_history |-> "List", memory_update_context |-> "List",
     extras |-> "Dict"]

\* isinstance(value, str): plain strings and the strings isoformat, json.dumps
\* and str gave.
IsPyStr(value) == value[1] \in {"str", "iso", "jsonl", "jsono", "jsons", "repr"}

\* The decimal string s writes an integer.
IsDecimal(s) ==
    \E n \in (0 - MaxClock - 1)..(MaxClock + 1) : IntToStr(n) = s

\* int(value) for a string: the integer the decimal string writes.
int(value) ==
    CHOOSE n \in (0 - MaxClock - 1)..(MaxClock + 1) : IntToStr(n) = value

\* str(value) as a value: a string is itself, an int its decimal string,
\* and <<"repr", value>> is the string str gives for None, a list, a dict
\* or a datetime.
StrOf(value) ==
    CASE IsPyStr(value) -> value
      [] value[1] = "int" -> PyStr(IntToStr(value[2]))
      [] OTHER -> <<"repr", value>>

\* json.dumps(value): <<"jsons", s>> is the quoted JSON string of s; a
\* datetime is not JSON serializable.
json_dumps(value) ==
    CASE value[1] = "list" -> <<"jsonl", value[2]>>
      [] value[1] = "dict" -> <<"jsono", value[2]>>
      [] value[1] = "int" -> PyStr(IntToStr(value[2]))
      [] value[1] = "None" -> PyStr("null")
      [] value[1] = "datetime" -> <<"exception", "TypeError">>
      [] OTHER -> <<"jsons", value>>

\* json.loads(value) for a string: what json.dumps wrote is read back, a
\* decimal string is an int, "null" is None, every other string is no JSON
\* (non-empty lists and dicts only: str of an empty list is "[]").
json_loads(value) ==
    CASE value[1] = "jsonl" -> PyList(value[2])
      [] value[1] = "jsono" -> PyDict(value[2])
      [] value[1] = "jsons" -> value[2]
      [] value[1] = "str" /\ IsDecimal(value[2]) -> PyInt(int(value[2]))
      [] value[1] = "str" /\ value[2] = "null" -> None
      [] OTHER -> <<"exception", "JSONDecodeError">>

\* The serialize method of each handler class.
handler_serialize(handler, value) ==
    CASE handler \in {"String", "Int"} -> StrOf(value)
      [] handler \in {"List", "Dict"} -> json_dumps(value)
      [] handler = "DateTime" ->
            IF value[1] = "datetime" THEN <<"iso", value[2]>>
            ELSE StrOf(value)

\* The deserialize method of each handler class; now is what datetime.now
\* returns when the DateTime handler falls back to it.  int(value) raises
\* ValueError on a string that writes no integer and TypeError on None, a
\* list or a dict; the List and Dict handlers turn undecodable input into
\* the empty list or dict.
handler_deserialize(handler, value, now) ==
    CASE handler = "String" -> StrOf(value)
      [] handler = "Int" ->
            IF value[1] = "int" THEN value
            ELSE IF value[1] = "str" /\ IsDecimal(value[2])
                 THEN PyInt(int(value[2]))
            ELSE IF IsPyStr(value) THEN <<"exception", "ValueError">>
            ELSE <<"exception", "TypeError">>
      [] handler = "List" ->
            IF value[1] = "list" THEN value
            ELSE IF IsPyStr(value) /\ json_loads(value)[1] # "exception"
                 THEN json_loads(value)
            ELSE PyList(<<>>)
      [] handler = "DateTime" ->
            IF value[1] = "datetime" THEN value
            ELSE IF value[1] = "iso" THEN PyDateTime(value[2])
            ELSE IF IsPyStr(value) THEN PyDateTime(now)
            ELSE value
      [] handler = "Dict" ->
            IF value[1] = "dict" THEN value
            ELSE IF IsPyStr(value) /\ json_loads(value)[1] # "exception"
                 THEN json_loads(value)
            ELSE PyDict(EmptyDict)

\* The datetime.now() calls deserialize makes on value: one when the
\* DateTime handler is given a string that is no isoformat string.
DeserializeNowCalls(field_name, value) ==
    IF /\ field_name \in DOMAIN memory_note_field_registry
       /\ memory_note_field_registry[field_name] = "DateTime"
       /\ IsPyStr(value)
       /\ value[1] # "iso"
    THEN 1 ELSE 0

\* FieldRegistry.serialize(field_name, value): the handler's serialize, and
\* str(value) for a field without a handler.
serialize(field_name, value) ==
    IF field_name \in DOMAIN memory_note_field_registry
    THEN handler_serialize(memory_note_field_registry[field_name], value)
    ELSE StrOf(value)

\* FieldRegistry.deserialize(field_name, value): the handler's deserialize,
\* and the value as it is for a field without a handler.
deserialize(field_name, value, now) ==
    IF field_name \in DOMAIN memory_note_field_registry
    THEN handler_deserialize(memory_note_field_registry[field_name], value,
                             now)
    ELSE value

\* serialize_all / deserialize_all: the dict comprehension over the fields.
\* An entry <<"exception", name>> stands for the exception that the field's
\* handler raised and that ends the comprehension.
serialize_all(data) ==
    [field_name \in DOMAIN data |-> serialize(field_name, data[field_name])]

deserialize_all(data, now) ==
    [field_name \in DOMAIN data |->
        deserialize(field_name, data[field_name], now)]

\* The exceptions among the entries of a result of the two.
Raised(result) ==
    {result[field_name][2] : field_name \in
        {f \in DOMAIN result : result[f][1] = "exception"}}

------------------------------------------------------------------------------
\* MemoryNote (memory_note.py)

\* model_fields of MemoryNote, without 'extras'.
known_fields ==
    {"content", "id", "keywords", "retrieval_count", "timestamp",
     "last_accessed", "context", "category", "tags",
     "memory_update_history", "memory_update_context"}

\* hasattr(note, key) for the keys callers pass: the declared fields.
hasattr(key) == key \in known_fields \cup {"extras"}

\* data[key] when the caller gave it, else the field's default.
FieldOr(data, key, default) ==
    IF key \in DOMAIN data THEN data[key][2] ELSE default

\* MemoryNote(**data) that merges the other way round: for a key given
\* both directly and inside the supplied extras, the supplied extras wins.
MemoryNoteExtrasWin(data, uuid, now) ==
    LET popped == {"memory_update_history", "memory_update_context", "extras"}
        given == IF "extras" \in DOMAIN data THEN data["extras"][2]
                 ELSE EmptyDict
        unknown == (DOMAIN data) \ (known_fields \cup {"extras"})
        extras == [key \in (DOMAIN given) \cup unknown |->
                      IF key \in DOMAIN given THEN given[key]
                      ELSE str(data[key])]
        known_data == [key \in (DOMAIN data) \cap (known_fields \ popped) |->
                          data[key]]
        content == known_data["content"][2]
    IN  [content |-> content,
         id |-> FieldOr(known_data, "id", uuid),
         keywords |-> FieldOr(known_data, "keywords", <<>>),
         retrieval_count |-> FieldOr(known_data, "retrieval_count", 0),
         timestamp |-> FieldOr(known_data, "timestamp", now),
         last_accessed |-> FieldOr(known_data, "last_accessed",
                                   IF "timestamp" \in DOMAIN data THEN now
                                   ELSE now + 1),
         context |-> FieldOr(known_data, "context", "General"),
         category |-> FieldOr(known_data, "category", "Uncategorized"),
         tags |-> FieldOr(known_data, "tags", <<>>),
         memory_update_history |-> <<content>>,
         memory_update_context |-> <<"Initial memory creation.">>,
         extras |-> extras]

\* MemoryNote(**data) whose default factories run in the other order:
\* last_accessed takes the earlier instant, timestamp the later.
MemoryNoteAccessedFirst(data, uuid, now) ==
    LET popped == {"memory_update_history", "memory_update_context", "extras"}
        given == IF "extras" \in DOMAIN data THEN data["extras"][2]
                 ELSE EmptyDict
        unknown == (DOMAIN data) \ (known_fields \cup {"extras"})
        extras == [key \in (DOMAIN given) \cup unknown |->
                      IF key \in unknown THEN str(data[key]) ELSE given[key]]
        known_data == [key \in (DOMAIN data) \cap (known_fields \ popped) |->
                          data[key]]
        content == known_data["content"][2]
    IN  [content |-> content,
         id |-> FieldOr(known_data, "id", uuid),
         keywords |-> FieldOr(known_data, "keywords", <<>>),
         retrieval_count |-> FieldOr(known_data, "retrieval_count", 0),
         timestamp |-> FieldOr(known_data, "timestamp",
                               IF "last_accessed" \in DOMAIN data THEN now
                               ELSE now + 1),
         last_accessed |-> FieldOr(known_data, "last_accessed", now),
         context |-> FieldOr(known_data, "context", "General"),
         category |-> FieldOr(known_data, "category", "Uncategorized"),
         tags |-> FieldOr(known_data, "tags", <<>>),
         memory_update_history |-> <<content>>,
         memory_update_context |-> <<"Initial memory creation.">>,
         extras |-> extras]

\* MemoryNote(**data): uuid is the value uuid4 gives, now the clock at the call.
\* The two history fields of data are dropped, unknown keys go to extras as
\* str(value), and the history lists get their creation entries.
MemoryNote(data, uuid, now) ==
    LET popped == {"memory_update_history", "memory_update_context", "extras"}
        given == IF "extras" \in DOMAIN data THEN data["extras"][2]
                 ELSE EmptyDict
        unknown == (DOMAIN data) \ (known_fields \cup {"extras"})
        extras == [key \in (DOMAIN given) \cup unknown |->
                      IF key \in unknown THEN str(data[key]) ELSE given[key]]
        known_data == [key \in (DOMAIN data) \cap (known_fields \ popped) |->
                          data[key]]
        content == known_data["content"][2]
    IN  [content |-> content,
         id |-> FieldOr(known_data, "id", uuid),
         keywords |-> FieldOr(known_data, "keywords", <<>>),
         retrieval_count |-> FieldOr(known_data, "retrieval_count", 0),
         timestamp |-> FieldOr(known_data, "timestamp", now),
         last_accessed |-> FieldOr(known_data, "last_accessed",
                                   IF "timestamp" \in DOMAIN data THEN now
                                   ELSE now + 1),
         context |-> FieldOr(known_data, "context", "General"),
         category |-> FieldOr(known_data, "category", "Uncategorized"),
         tags |-> FieldOr(known_data, "tags", <<>>),
         memory_update_history |-> <<content>>,
         memory_update_context |-> <<"Initial memory creation.">>,
         extras |-> extras]

\* The extras map of the caller after MemoryNote(**data): __init__ fills a
\* copy of it (data.pop('extras', {}).copy()), the caller's map keeps what
\* it held.  None when the caller gave no extras.
CallerExtras(data) ==
    IF "extras" \in DOMAIN data THEN data["extras"] ELSE None

\* The datetime.now() calls MemoryNote(**data) makes: one per timestamp
\* default factory that runs.
NowCalls(data) ==
    (IF "timestamp" \in DOMAIN data THEN 0 ELSE 1)
    + (IF "last_accessed" \in DOMAIN data THEN 0 ELSE 1)

\* note.model_dump(): the fields of the note as a dict.
model_dump(note) == note

\* The values of a model_dump as Python values of the declared types.
PyValues(dump) ==
    [content |-> PyStr(dump.content),
     id |-> PyStr(dump.id),
     keywords |-> PyList(dump.keywords),
     retrieval_count |-> PyInt(dump.retrieval_count),
     timestamp |-> PyDateTime(dump.timestamp),
     last_accessed |-> PyDateTime(dump.last_accessed),
     context |-> PyStr(dump.context),
     category |-> PyStr(dump.category),
     tags |-> PyList(dump.tags),
     memory_update_history |-> PyList(dump.memory_update_history),
     memory_update_context |-> PyList(dump.memory_update_context),
     extras |-> PyDict(dump.extras)]

\* note.serialize_for_storage()
serialize_for_storage(note) == serialize_all(PyValues(model_dump(note)))

\* MemoryNote.deserialize_from_storage(data): cls(**deserialized_data).
\* Every field is in data, so no default factory runs.
deserialize_from_storage(data) ==
    MemoryNote(deserialize_all(data, clock), "", clock)

\* MemoryNote.update that assigns last_accessed from kwargs like any other
\* attribute.
MemoryNote_updateAnyKey(note, content, update_context, kwargs, now) ==
    LET context_msg == IF update_context # None THEN update_context[2]
                       ELSE "Memory update."
        appended == [note EXCEPT
                        !.memory_update_context = Append(@, context_msg),
                        !.content = content,
                        !.memory_update_history = Append(@, content),
                        !.last_accessed = now]
    IN  [field \in DOMAIN appended |->
            IF field \in DOMAIN kwargs /\ hasattr(field)
            THEN kwargs[field][2] ELSE appended[field]]

\* note.update(content, update_context, **kwargs) at instant now: the reason
\* (or 'Memory update.') and the content are appended to the two history
\* lists, last_accessed is set, and the kwargs other than last_accessed are
\* assigned to the attributes the note has.
MemoryNote_update(note, content, update_context, kwargs, now) ==
    LET context_msg == IF update_context # None THEN update_context[2]
                       ELSE "Memory update."
        appended == [note EXCEPT
                        !.memory_update_context = Append(@, context_msg),
                        !.content = content,
                        !.memory_update_history = Append(@, content),
                        !.last_accessed = now]
        rest == [key \in (DOMAIN kwargs) \ {"last_accessed"} |-> kwargs[key]]
    IN  [field \in DOMAIN appended |->
            IF field \in DOMAIN rest /\ hasattr(field)
            THEN rest[field][2] ELSE appended[field]]

------------------------------------------------------------------------------
\* AgenticMemorySystem helpers (memory_system.py)

\* _serialize_metadata(note): datetimes to isoformat strings, lists and dicts
\* to JSON strings, every other value (strings, the int count) as it is.
_serialize_metadata(note) ==
    LET metadata_dump == model_dump(note)
    IN  [content |-> PyStr(metadata_dump.content),
         id |-> PyStr(metadata_dump.id),
         keywords |-> <<"jsonl", metadata_dump.keywords>>,
         retrieval_count |-> PyInt(metadata_dump.retrieval_count),
         timestamp |-> <<"iso", metadata_dump.timestamp>>,
         last_accessed |-> <<"iso", metadata_dump.last_accessed>>,
         context |-> PyStr(metadata_dump.context),
         category |-> PyStr(metadata_dump.category),
         tags |-> <<"jsonl", metadata_dump.tags>>,
         memory_update_history |->
             <<"jsonl", metadata_dump.memory_update_history>>,
         memory_update_context |->
             <<"jsonl", metadata_dump.memory_update_context>>,
         extras |-> <<"jsono", metadata_dump.extras>>]

\* note.extras.get(key) == value
ExtrasGetEq(extras, key, value) ==
    IF key \in DOMAIN extras
    THEN IsStr(value) /\ extras[key] = value[2]
    ELSE value[1] = "None"

\* FilterMatches without the check for keys outside the filter: a subset
\* filter.
FilterMatchesSubset(note, filter_keywords) ==
    \A key \in DOMAIN filter_keywords :
        ExtrasGetEq(note.extras, key, filter_keywords[key])

\* The test of _filter_by_keywords on one note: every filter pair matches
\* and extras has no key outside the filter.
FilterMatches(note, filter_keywords) ==
    /\ \A key \in DOMAIN filter_keywords :
           ExtrasGetEq(note.extras, key, filter_keywords[key])
    /\ \A key \in DOMAIN note.extras : key \in DOMAIN filter_keywords

\* _filter_by_keywords(filter_keywords) over the record map mem, whose keys
\* are iterated in the order `order`.
_filter_by_keywords(mem, order, filter_keywords) ==
    LET Matches(memory_id) == FilterMatches(mem[memory_id], filter_keywords)
    IN  SelectSeq(order, Matches)

\* The setattr loop that writes a key the note has no attribute for into
\* its extras.
SetAttrsAbsorb(note, kwargs) ==
    LET unknown == {key \in DOMAIN kwargs : ~hasattr(key)}
    IN  [field \in DOMAIN note |->
            IF field \in DOMAIN kwargs /\ hasattr(field)
            THEN kwargs[field][2]
            ELSE IF field = "extras"
            THEN [key \in (DOMAIN note.extras) \cup unknown |->
                     IF key \in unknown THEN kwargs[key][2]
                     ELSE note.extras[key]]
            ELSE note[field]]

\* The setattr loop of update: every key the note has as an attribute is
\* assigned, the other keys are skipped.
SetAttrs(note, kwargs) ==
    [field \in DOMAIN note |->
        IF field \in DOMAIN kwargs /\ hasattr(field)
        THEN kwargs[field][2] ELSE note[field]]

\* Attributes of a ChromaRetriever: what __init__ sets and the class defines.
ChromaRetrieverAttrs ==
    {"client", "embedding_function", "collection", "field_registry",
     "add_document", "delete_document", "search", "_deserialize_metadatas"}

\* Attributes of an AgenticMemorySystem: what __init__ sets and the class
\* defines.
AgenticMemorySystemAttrs ==
    {"memories", "retriever", "_llm_processor", "_load_existing_memories",
     "add_note", "_serialize_metadata", "_deserialize_metadata", "read",
     "_filter_by_keywords", "search", "update", "update_by_keywords"}

\* MemoryNote(**metadata) passes the validation of the declared field types:
\* retrieval_count, when given, is an int or a string that writes one.
Validates(metadata) ==
    \/ "retrieval_count" \notin DOMAIN metadata
    \/ metadata.retrieval_count[1] = "int"
    \/ /\ metadata.retrieval_count[1] = "str"
       /\ IsDecimal(metadata.retrieval_count[2])

\* _load_existing_memories on a system whose memories is empty: the record
\* map afterwards and the exception caught on the way.  An empty collection
\* returns at once.  With documents in the collection the metadatas list is
\* non-empty, so self.retriever._convert_metadata_types is looked up; a
\* ChromaRetriever has no such attribute, the AttributeError is caught by
\* `except AttributeError: pass`, and the loop that fills memories is never
\* entered.
_load_existing_memories(coll, order) ==
    IF order = <<>>
    THEN [memories |-> EmptyDict, memOrder |-> <<>>, caught |-> "none"]
    ELSE [memories |-> EmptyDict, memOrder |-> <<>>,
          caught |-> IF "_convert_metadata_types" \in ChromaRetrieverAttrs
                     THEN "unmodelled" ELSE "AttributeError"]

------------------------------------------------------------------------------
\* Inputs of the calls

\* The contents notes are given: add_note is called with the first, update
\* with either.
Contents == {"c1", "c2"}
AddContents == {"c1"}

\* The values uuid4 gives: the i-th is taken when the first i-1 are in use.
UuidPool == [i \in 1..(MaxClock + 1) |-> "u" \o NatToStr(i)]

\* str(uuid.uuid4()): an id no record and no document has yet.
uuid4 ==
    LET used == (DOMAIN memories) \cup (DOMAIN collection)
        free == {i \in DOMAIN UuidPool : UuidPool[i] \notin used}
    IN  UuidPool[CHOOSE i \in free : \A j \in free : i <= j]

\* The keyword arguments add_note is called with, besides content: none,
\* free-form attributes (one of them not a string), and declared fields
\* with a caller-chosen id.
AddKwargs ==
    {EmptyDict,
     [project |-> PyStr("a")],
     [project |-> PyStr("a"), priority |-> PyInt(1)],
     [id |-> PyStr("x1"), keywords |-> PyList(<<"k1">>),
      context |-> PyStr("ctx")]}

\* The keyword arguments update is called with: declared fields, and a key
\* that is no attribute of a note.
UpdateKwargs ==
    {[content |-> PyStr("c2"), keywords |-> PyList(<<"k2">>)],
     [content |-> PyStr("c1")],
     [project |-> PyStr("z")]}

\* The ids read and update are called with: known ids and an unknown one.
CallIds == (DOMAIN memories) \cup (DOMAIN collection) \cup {"missing-id"}

\* The filter criteria search is called with: none, string criteria, and
\* criteria with a value that is not a string.
FilterKwargs ==
    {EmptyDict,
     [project |-> PyStr("a")],
     [project |-> PyStr("a"), priority |-> PyStr("1")],
     [project |-> PyStr("a"), priority |-> PyInt(1)]}

\* The criteria _filter_by_keywords is called with directly: maps of
\* strings (its declared parameter type Dict[str, str]), among them the
\* empty map, a wrong value and a sub-map of a note's extras.
FilterCriteria ==
    {EmptyDict,
     [project |-> PyStr("a")],
     [project |-> PyStr("b")],
     [priority |-> PyStr("1")],
     [project |-> PyStr("a"), priority |-> PyStr("1")]}

\* The criteria update_by_keywords is called with: none, free-form string
\* attributes, a free-form attribute that is not a string, and a declared
\* field.
UpsertKwargs ==
    {EmptyDict,
     [project |-> PyStr("a")],
     [project |-> PyStr("b")],
     [priority |-> PyInt(1)],
     [context |-> PyStr("ctx")]}

\* The attributes records are created with where the record fields matter:
\* none, a free-form one, a creation time later than every clock value,
\* and history lists of the caller.
RecordKwargs ==
    {EmptyDict,
     [project |-> PyStr("a")],
     [timestamp |-> PyDateTime(MaxClock + 5)],
     [memory_update_history |-> PyList(<<"h1", "h2">>),
      memory_update_context |-> PyList(<<>>)]}

\* Field overrides update is called with, each naming a declared field of
\* the note: the fields read and creation set, and the content and its
\* history.
OverrideKwargs ==
    {[content |-> PyStr("c2")],
     [retrieval_count |-> PyInt(0)],
     [id |-> PyStr("x1")],
     [timestamp |-> PyDateTime(MaxClock + 5)]}

HistoryKwargs ==
    {[content |-> PyStr("c2")],
     [content |-> PyStr("c1")],
     [memory_update_history |-> PyList(<<>>)]}

\* The keyword arguments MemoryNote.update is called with besides content
\* and update_context.
NoteUpdateKwargs ==
    {EmptyDict,
     [last_accessed |-> PyDateTime(0), category |-> PyStr("cat"),
      project |-> PyStr("z")],
     [memory_update_history |-> PyList(<<>>)]}

\* The attribute maps notes are constructed from where extras matters:
\* none, free-form attributes (one not a string), an explicit extras map
\* next to a free-form attribute under another and under the same key, and
\* an explicit extras map with a key that is the name of a declared field.
NoteKwargs ==
    {EmptyDict,
     [project |-> PyStr("a"), priority |-> PyInt(1)],
     [extras |-> PyDict([existing |-> "value"]), project |-> PyStr("a")],
     [extras |-> PyDict([project |-> "b"]), project |-> PyStr("a"),
      category |-> PyStr("cat")],
     [extras |-> PyDict([category |-> "x"])]}

\* The fields and flat values serialize_all and deserialize_all are given:
\* a field of each handler and one without a handler; strings (plain, a
\* decimal, JSON, isoformat), an integer, null, a list and a map.
CodecFields ==
    {"content", "retrieval_count", "keywords", "timestamp", "extras",
     "project"}

FlatValues ==
    {PyStr("abc"), PyStr("3"), PyInt(3), None, PyList(<<"a">>),
     PyDict([k |-> "v"]), <<"jsonl", <<"a">>>>, <<"jsono", [k |-> "v"]>>,
     <<"iso", 1>>}

\* Attribute maps of one field, and of two of which the first is sound.
AttributeMaps ==
    {[field_name \in {f} |-> v] : f \in CodecFields, v \in FlatValues}
    \cup {[content |-> PyStr("abc"), retrieval_count |-> v] :
              v \in FlatValues}

\* The keyword arguments of the update calls that run concurrently.
ThreadKwargs == {[content |-> PyStr("c1")], [content |-> PyStr("c2")]}

\* A document written to the collection by another client, with metadata
\* no MemoryNote can be built from.
CorruptDocument ==
    [document |-> "c1", id |-> "bad",
     metadata |-> [retrieval_count |-> PyStr("abc")]]

\* The collection names and the documents of the persistent retriever.
CollectionNames == {"memories", "shared"}
PersistentDocs == {"d1", "d2"}

\* The criteria of the update_by_keywords calls that run concurrently.
ThreadCriteria == {[project |-> PyStr("a")], [project |-> PyStr("b")]}

\* Distances the collection reports and thresholds search is called with,
\* in tenths (the default threshold is 0.7).
Distances == {7, 9}
Thresholds == {7}

------------------------------------------------------------------------------
\* The ChromaDB collection behind the retriever (retrievers.py)

\* ChromaRetriever.add_document: collection.add of one document.  The call
\* may fail; for an id the collection already holds, the backend either
\* keeps the stored document or replaces it.
AddOutcomes(doc_id) ==
    IF doc_id \in DOMAIN collection
    THEN {"kept", "replaced", "raise"}
    ELSE {"added", "raise"}

add_document(document, metadata, doc_id, outcome) ==
    /\ outcome \in AddOutcomes(doc_id)
    /\ IF outcome \in {"added", "replaced"}
       THEN /\ collection' = DictSet(collection, doc_id,
                                [document |-> document, metadata |-> metadata])
            /\ collOrder' = OrderSet(collOrder, collection, doc_id)
       ELSE UNCHANGED <<collection, collOrder>>

\* collection.update(ids=[id], documents=[document], metadatas=[metadata]):
\* replaces the document stored under id; an id the collection does not
\* hold is skipped.  The call may fail.
collection_update(id, document, metadata, outcome) ==
    /\ outcome \in {"updated", "raise"}
    /\ IF outcome = "updated" /\ id \in DOMAIN collection
       THEN collection' = DictSet(collection, id,
                               [document |-> document, metadata |-> metadata])
       ELSE UNCHANGED collection
    /\ UNCHANGED collOrder

\* ChromaRetriever.delete_document(doc_id): collection.delete(ids=[doc_id]);
\* an id the collection does not hold is skipped.
delete_document(doc_id) ==
    LET NotDoc(id) == id # doc_id
    IN  /\ collection' = [id \in (DOMAIN collection) \ {doc_id} |->
                              collection[id]]
        /\ collOrder' = SelectSeq(collOrder, NotDoc)

\* What ChromaRetriever.search(query, k) may return for the one query: up to
\* k stored documents, each once, nearest first.
SearchHits(k) ==
    LET n == IF k < Cardinality(DOMAIN collection) THEN k
             ELSE Cardinality(DOMAIN collection)
    IN  {hits \in [1..n -> [id : DOMAIN collection, distance : Distances]] :
            /\ \A i, j \in 1..n : i < j =>
                   /\ hits[i].id # hits[j].id
                   /\ hits[i].distance <= hits[j].distance}

------------------------------------------------------------------------------
\* AgenticMemorySystem (memory_system.py)

Return(value) == [kind |-> "return", value |-> value]
Raise(exception) == [kind |-> "raise", value |-> <<"exception", exception>>]

\* The threads that call read, update or update_by_keywords on the one
\* system.
Threads == {"t1", "t2"}

\* A fresh system on a fresh retriever: nothing stored, nothing loaded; an
\* empty directory for persistent collections; no call in flight.
Init ==
    /\ memories = EmptyDict
    /\ memOrder = <<>>
    /\ collection = EmptyDict
    /\ collOrder = <<>>
    /\ clock = 0
    /\ call = [op |-> "__init__"]
    /\ ret = Return(None)
    /\ persistent = [collections |-> EmptyDict, collection_name |-> None]
    /\ threads = [t \in Threads |-> [pc |-> "idle"]]

\* What the load of a construction leaves when collection.get returns
\* (get = "returned") and when it raises: the exception is caught by
\* `except Exception` and warned about, and memories stays empty.
LoadOutcome(get) ==
    IF get = "raise"
    THEN [memories |-> EmptyDict, memOrder |-> <<>>, caught |-> "Exception"]
    ELSE _load_existing_memories(collection, collOrder)

\* AgenticMemorySystem(retriever=retriever) that wraps a failure of the
\* load into a RuntimeError, as it does for a failure of the retriever.
InitReraising ==
    \E get \in {"returned", "raise"} :
       LET loaded == LoadOutcome(get)
       IN  /\ memories' = loaded.memories
           /\ memOrder' = loaded.memOrder
           /\ call' = [op |-> "__init__", caught |-> loaded.caught]
           /\ ret' = IF loaded.caught = "none" THEN Return(None)
                     ELSE Raise("RuntimeError")
           /\ UNCHANGED <<collection, collOrder, clock, persistent, threads>>

\* AgenticMemorySystem(retriever=retriever) on the retriever in use: a new
\* system whose memories starts empty and is filled by the load; the
\* enumeration of the stored documents may fail.
__init__ ==
    \E get \in {"returned", "raise"} :
       LET loaded == LoadOutcome(get)
       IN  /\ memories' = loaded.memories
           /\ memOrder' = loaded.memOrder
           /\ call' = [op |-> "__init__", caught |-> loaded.caught]
           /\ ret' = Return(None)
           /\ UNCHANGED <<collection, collOrder, clock, persistent, threads>>

\* add_note that pushes first and stores the note only after the push.
add_note_push_first(content, kwargs, outcome) ==
    LET data == DictSet(kwargs, "content", PyStr(content))
        note == MemoryNote(data, uuid4, clock)
        metadata == _serialize_metadata(note)
    IN  /\ clock + NowCalls(data) <= MaxClock
        /\ clock' = clock + NowCalls(data)
        /\ add_document(note.content, metadata, note.id, outcome)
        /\ IF outcome = "raise"
           THEN UNCHANGED <<memories, memOrder>>
           ELSE /\ memories' = DictSet(memories, note.id, note)
                /\ memOrder' = OrderSet(memOrder, memories, note.id)
        /\ call' = [op |-> "add_note", content |-> content, kwargs |-> kwargs,
                    id |-> note.id, outcome |-> outcome]
        /\ ret' = IF outcome = "raise" THEN Raise("Exception")
                  ELSE Return(PyStr(note.id))

\* The statements of add_note up to the push: what add_note does to the
\* system, whoever calls it.
add_note_body(content, kwargs, outcome) ==
    LET data == DictSet(kwargs, "content", PyStr(content))
        note == MemoryNote(data, uuid4, clock)
        metadata == _serialize_metadata(note)
    IN  /\ clock + NowCalls(data) <= MaxClock
        /\ clock' = clock + NowCalls(data)
        /\ memories' = DictSet(memories, note.id, note)
        /\ memOrder' = OrderSet(memOrder, memories, note.id)
        /\ add_document(note.content, metadata, note.id, outcome)

\* add_note(content, **kwargs): the note is built and stored in memories,
\* then pushed to the collection; a failure of the push leaves the call by
\* an exception, after memories was assigned.
add_note(content, kwargs, outcome) ==
    LET data == DictSet(kwargs, "content", PyStr(content))
        note == MemoryNote(data, uuid4, clock)
    IN  /\ add_note_body(content, kwargs, outcome)
        /\ call' = [op |-> "add_note", content |-> content, kwargs |-> kwargs,
                    id |-> note.id, outcome |-> outcome,
                    extras_arg |-> CallerExtras(data)]
        /\ ret' = IF outcome = "raise" THEN Raise("Exception")
                  ELSE Return(PyStr(note.id))

\* read that marks the note as retrieved once instead of counting.
read_sets_count(memory_id) ==
    /\ call' = [op |-> "read", memory_id |-> memory_id]
    /\ IF memory_id \in DOMAIN memories
       THEN LET memory == [memories[memory_id] EXCEPT
                              !.last_accessed = clock,
                              !.retrieval_count = 1]
            IN  /\ clock + 1 <= MaxClock
                /\ clock' = clock + 1
                /\ memories' = DictSet(memories, memory_id, memory)
                /\ ret' = Return(<<"note", memory>>)
       ELSE /\ ret' = Return(None)
            /\ UNCHANGED <<memories, clock>>
    /\ UNCHANGED <<memOrder, collection, collOrder>>

\* read(memory_id): a known note gets last_accessed = now and one more
\* retrieval; the note (or None) is returned.
read(memory_id) ==
    /\ call' = [op |-> "read", memory_id |-> memory_id]
    /\ IF memory_id \in DOMAIN memories
       THEN LET memory == [memories[memory_id] EXCEPT
                              !.last_accessed = clock,
                              !.retrieval_count = @ + 1]
            IN  /\ clock + 1 <= MaxClock
                /\ clock' = clock + 1
                /\ memories' = DictSet(memories, memory_id, memory)
                /\ ret' = Return(<<"note", memory>>)
       ELSE /\ ret' = Return(None)
            /\ UNCHANGED <<memories, clock>>
    /\ UNCHANGED <<memOrder, collection, collOrder>>

\* update that assigns the fields only once the push has succeeded.
update_assign_after_push(memory_id, kwargs, outcome) ==
    /\ call' = [op |-> "update", memory_id |-> memory_id, kwargs |-> kwargs,
                outcome |-> outcome]
    /\ IF memory_id \notin DOMAIN memories
       THEN /\ outcome = "none"
            /\ ret' = Return(PyBool(FALSE))
            /\ UNCHANGED <<memories, collection, collOrder>>
       ELSE LET note == SetAttrs(memories[memory_id], kwargs)
            IN  /\ memories' = IF outcome = "raise" THEN memories
                               ELSE DictSet(memories, memory_id, note)
                /\ collection_update(memory_id, note.content,
                                     _serialize_metadata(note), outcome)
                /\ ret' = Return(PyBool(outcome # "raise"))
    /\ UNCHANGED <<memOrder, clock>>

\* update without the early return: an unknown id is pushed to the store
\* like a known one, with the content of the call.
update_pushes_unknown(memory_id, kwargs, outcome) ==
    /\ call' = [op |-> "update", memory_id |-> memory_id, kwargs |-> kwargs,
                outcome |-> outcome]
    /\ IF memory_id \notin DOMAIN memories
       THEN /\ outcome \in {"updated", "raise"}
            /\ ret' = Return(PyBool(outcome # "raise"))
            /\ UNCHANGED <<memories, collection, collOrder>>
       ELSE LET note == SetAttrs(memories[memory_id], kwargs)
            IN  /\ memories' = DictSet(memories, memory_id, note)
                /\ collection_update(memory_id, note.content,
                                     _serialize_metadata(note), outcome)
                /\ ret' = Return(PyBool(outcome # "raise"))
    /\ UNCHANGED <<memOrder, clock>>

\* The statements of update for a known id: the setattr loop and the push
\* of the note with collection.update.
update_body(memory_id, kwargs, outcome) ==
    LET note == SetAttrs(memories[memory_id], kwargs)
    IN  /\ memories' = DictSet(memories, memory_id, note)
        /\ collection_update(memory_id, note.content,
                             _serialize_metadata(note), outcome)

\* update(memory_id, **kwargs): False for an unknown id; else the fields are
\* assigned, the note is pushed with collection.update, and a failure of
\* the push is caught and reported as False.
update(memory_id, kwargs, outcome) ==
    /\ call' = [op |-> "update", memory_id |-> memory_id, kwargs |-> kwargs,
                outcome |-> outcome]
    /\ IF memory_id \notin DOMAIN memories
       THEN /\ outcome = "none"
            /\ ret' = Return(PyBool(FALSE))
            /\ UNCHANGED <<memories, collection, collOrder>>
       ELSE /\ update_body(memory_id, kwargs, outcome)
            /\ ret' = Return(PyBool(outcome # "raise"))
    /\ UNCHANGED <<memOrder, clock>>

\* update_by_keywords that updates the last of the matches.
update_by_keywords_last(content, kwargs, outcome) ==
    LET matching_ids == _filter_by_keywords(memories, memOrder, kwargs)
        matching_id == matching_ids[Len(matching_ids)]
    IN  /\ matching_ids # <<>>
        /\ update_body(matching_id, [content |-> PyStr(content)], outcome)
        /\ call' = [op |-> "update_by_keywords", content |-> content,
                    kwargs |-> kwargs, outcome |-> outcome,
                    path |-> "update", id |-> matching_id]
        /\ ret' = Return(PyBool(TRUE))
        /\ UNCHANGED <<memOrder, clock>>

\* update_by_keywords(content, **kwargs): False without criteria; when no
\* note passes _filter_by_keywords(kwargs) a note is added with the criteria
\* as its attributes (an exception of add_note leaves the call), else the
\* first match gets the content through update, whose result is dropped;
\* True in both cases.
update_by_keywords(content, kwargs, outcome) ==
    LET matching_ids == _filter_by_keywords(memories, memOrder, kwargs)
        data == DictSet(kwargs, "content", PyStr(content))
        path == IF kwargs = EmptyDict THEN "none"
                ELSE IF matching_ids = <<>> THEN "add" ELSE "update"
        id == CASE path = "none" -> ""
                [] path = "add" -> MemoryNote(data, uuid4, clock).id
                [] path = "update" -> matching_ids[1]
    IN  /\ call' = [op |-> "update_by_keywords", content |-> content,
                    kwargs |-> kwargs, outcome |-> outcome,
                    path |-> path, id |-> id]
        /\ CASE path = "none" ->
                   /\ outcome = "none"
                   /\ ret' = Return(PyBool(FALSE))
                   /\ UNCHANGED <<memories, memOrder, collection, collOrder,
                                  clock>>
             [] path = "add" ->
                   /\ add_note_body(content, kwargs, outcome)
                   /\ ret' = IF outcome = "raise" THEN Raise("Exception")
                             ELSE Return(PyBool(TRUE))
             [] path = "update" ->
                   /\ update_body(id, [content |-> PyStr(content)], outcome)
                   /\ ret' = Return(PyBool(TRUE))
                   /\ UNCHANGED <<memOrder, clock>>

\* The semantic phase without the threshold test.
RECURSIVE SemanticResultsAnyDistance(_, _, _)
SemanticResultsAnyDistance(hits, existing_ids, _threshold) ==
    IF hits = <<>> THEN <<>>
    ELSE LET id == Head(hits).id
             content == collection[id].document
             rest == SemanticResultsAnyDistance(Tail(hits), existing_ids,
                                                _threshold)
         IN  IF id \notin existing_ids
             THEN IF id \in DOMAIN memories
                  THEN <<model_dump(memories[id])>> \o rest
                  ELSE <<[id |-> id, content |-> content]>> \o rest
             ELSE rest

\* The semantic phase that leaves out the hits memories does not hold.
RECURSIVE SemanticResultsKnownOnly(_, _, _)
SemanticResultsKnownOnly(hits, existing_ids, _threshold) ==
    IF hits = <<>> THEN <<>>
    ELSE LET id == Head(hits).id
             distance == Head(hits).distance
             rest == SemanticResultsKnownOnly(Tail(hits), existing_ids,
                                              _threshold)
         IN  IF /\ id \notin existing_ids
                /\ distance <= _threshold
                /\ id \in DOMAIN memories
             THEN <<model_dump(memories[id])>> \o rest
             ELSE rest

\* The semantic phase of search: the hits not already included and within
\* the threshold, as full dumps when the id is in memories and as
\* {id, content} otherwise.
RECURSIVE SemanticResults(_, _, _)
SemanticResults(hits, existing_ids, _threshold) ==
    IF hits = <<>> THEN <<>>
    ELSE LET id == Head(hits).id
             distance == Head(hits).distance
             content == collection[id].document
             rest == SemanticResults(Tail(hits), existing_ids, _threshold)
         IN  IF id \notin existing_ids /\ distance <= _threshold
             THEN IF id \in DOMAIN memories
                  THEN <<model_dump(memories[id])>> \o rest
                  ELSE <<[id |-> id, content |-> content]>> \o rest
             ELSE rest

\* results_list[:k] with the bound off by one: one entry too many.
SliceOneMore(results_list, k) ==
    SubSeq(results_list, 1, IF k + 1 < Len(results_list) THEN k + 1
                            ELSE Len(results_list))

\* results_list[:k] for k >= 0
Slice(results_list, k) ==
    SubSeq(results_list, 1, IF k < Len(results_list) THEN k
                            ELSE Len(results_list))

\* The exact-match phase of search: the dumps of the notes the string-valued
\* criteria select, or nothing when no such criteria are given.
KeywordResults(kwargs) ==
    LET strs == [key \in {x \in DOMAIN kwargs : IsStr(kwargs[x])} |->
                    kwargs[key]]
        keyword_matched_ids == _filter_by_keywords(memories, memOrder, strs)
    IN  IF strs # EmptyDict
        THEN [i \in 1..Len(keyword_matched_ids) |->
                 model_dump(memories[keyword_matched_ids[i]])]
        ELSE <<>>

\* search that puts the semantic results before the exact matches.
search_semantic_first(k, _threshold, kwargs, hits, outcome) ==
    LET results_list == KeywordResults(kwargs)
        existing_ids == {results_list[i].id : i \in 1..Len(results_list)}
        merged == SemanticResults(hits, existing_ids, _threshold)
                  \o results_list
    IN  /\ call' = [op |-> "search", k |-> k, _threshold |-> _threshold,
                    kwargs |-> kwargs, hits |-> hits, outcome |-> outcome]
        /\ ret' = IF outcome = "raise" THEN Raise("Exception")
                  ELSE Return(PyList(Slice(merged, k)))
        /\ UNCHANGED <<memories, memOrder, collection, collOrder, clock>>

\* search that counts a retrieval for every record it returns, as read does.
search_counting(k, _threshold, kwargs, hits, outcome) ==
    LET results_list == KeywordResults(kwargs)
        existing_ids == {results_list[i].id : i \in 1..Len(results_list)}
        merged == results_list
                  \o SemanticResults(hits, existing_ids, _threshold)
        result == Slice(merged, k)
        returned == {result[i].id : i \in 1..Len(result)}
    IN  /\ call' = [op |-> "search", k |-> k, _threshold |-> _threshold,
                    kwargs |-> kwargs, hits |-> hits, outcome |-> outcome]
        /\ ret' = IF outcome = "raise" THEN Raise("Exception")
                  ELSE Return(PyList(result))
        /\ memories' =
               [id \in DOMAIN memories |->
                   IF outcome # "raise" /\ id \in returned
                   THEN [memories[id] EXCEPT !.retrieval_count = @ + 1]
                   ELSE memories[id]]
        /\ UNCHANGED <<memOrder, collection, collOrder, clock>>

\* search(query, k, _threshold, **kwargs); hits is what the retriever
\* returns for the query, and a failing retriever ends the call by its
\* exception.
search(k, _threshold, kwargs, hits, outcome) ==
    LET results_list == KeywordResults(kwargs)
        existing_ids == {results_list[i].id : i \in 1..Len(results_list)}
        merged == results_list
                  \o SemanticResults(hits, existing_ids, _threshold)
    IN  /\ call' = [op |-> "search", k |-> k, _threshold |-> _threshold,
                    kwargs |-> kwargs, hits |-> hits, outcome |-> outcome]
        /\ ret' = IF outcome = "raise" THEN Raise("Exception")
                  ELSE Return(PyList(Slice(merged, k)))
        /\ UNCHANGED <<memories, memOrder, collection, collOrder, clock>>

\* note.update(content, update_context, **kwargs) on the note object that
\* memories holds under memory_id (the object read returns); nothing is
\* pushed to the store.
note_update(memory_id, content, update_context, kwargs) ==
    /\ memory_id \in DOMAIN memories
    /\ clock + 1 <= MaxClock
    /\ clock' = clock + 1
    /\ memories' = DictSet(memories, memory_id,
                           MemoryNote_update(memories[memory_id], content,
                                             update_context, kwargs, clock))
    /\ call' = [op |-> "MemoryNote.update", memory_id |-> memory_id,
                content |-> content, update_context |-> update_context,
                kwargs |-> kwargs]
    /\ ret' = Return(None)
    /\ UNCHANGED <<memOrder, collection, collOrder>>

\* MemoryNote.deserialize_from_storage(note.serialize_for_storage()) for
\* the note that memories holds under memory_id.
roundtrip(memory_id) ==
    /\ memory_id \in DOMAIN memories
    /\ call' = [op |-> "roundtrip", memory_id |-> memory_id]
    /\ ret' = Return(<<"note", deserialize_from_storage(
                                   serialize_for_storage(memories[memory_id]))>>)
    /\ UNCHANGED <<memories, memOrder, collection, collOrder, clock>>

\* A call of memory_note_field_registry.serialize_all(data).
registry_serialize_all(data) ==
    LET result == serialize_all(data)
    IN  /\ call' = [op |-> "serialize_all", data |-> data]
        /\ ret' = IF Raised(result) # {}
                  THEN Raise(CHOOSE e \in Raised(result) : TRUE)
                  ELSE Return(PyDict(result))
        /\ UNCHANGED <<memories, memOrder, collection, collOrder, clock>>

\* A call of memory_note_field_registry.deserialize_all(data).
registry_deserialize_all(data) ==
    LET result == deserialize_all(data, clock)
        calls == Cardinality({f \in DOMAIN data :
                                 DeserializeNowCalls(f, data[f]) = 1})
    IN  /\ clock + calls <= MaxClock
        /\ clock' = clock + calls
        /\ call' = [op |-> "deserialize_all", data |-> data]
        /\ ret' = IF Raised(result) # {}
                  THEN Raise(CHOOSE e \in Raised(result) : TRUE)
                  ELSE Return(PyDict(result))
        /\ UNCHANGED <<memories, memOrder, collection, collOrder>>

\* update(memory_id, **kwargs) run by thread t, statement by statement; the
\* method takes no lock, so another thread may run between any two of them.
\* The membership test and `note = self.memories[memory_id]`.
update_begin(t, memory_id, kwargs) ==
    /\ threads[t].pc = "idle"
    /\ threads' = [threads EXCEPT ![t] =
            IF memory_id \in DOMAIN memories
            THEN [pc |-> "assign", memory_id |-> memory_id,
                  kwargs |-> kwargs]
            ELSE [pc |-> "done", memory_id |-> memory_id, kwargs |-> kwargs,
                  ret |-> PyBool(FALSE)]]
    /\ UNCHANGED <<memories, memOrder, collection, collOrder, clock, call,
                   ret, persistent>>

\* The setattr loop on the shared note.
update_assign(t) ==
    /\ threads[t].pc = "assign"
    /\ memories' = DictSet(memories, threads[t].memory_id,
                       SetAttrs(memories[threads[t].memory_id],
                                threads[t].kwargs))
    /\ threads' = [threads EXCEPT ![t].pc = "serialize"]
    /\ UNCHANGED <<memOrder, collection, collOrder, clock, call, ret,
                   persistent>>

\* The arguments of collection.update are evaluated: note.content and
\* self._serialize_metadata(note), read from the shared note.
update_serialize(t) ==
    /\ threads[t].pc = "serialize"
    /\ threads' = [threads EXCEPT ![t] =
            [pc |-> "push", memory_id |-> threads[t].memory_id,
             kwargs |-> threads[t].kwargs,
             document |-> memories[threads[t].memory_id].content,
             metadata |->
                 _serialize_metadata(memories[threads[t].memory_id])]]
    /\ UNCHANGED <<memories, memOrder, collection, collOrder, clock, call,
                   ret, persistent>>

\* collection.update with the evaluated arguments, and `return True`.
update_push(t) ==
    /\ threads[t].pc = "push"
    /\ collection_update(threads[t].memory_id, threads[t].document,
                         threads[t].metadata, "updated")
    /\ threads' = [threads EXCEPT ![t] =
            [pc |-> "done", memory_id |-> threads[t].memory_id,
             kwargs |-> threads[t].kwargs, ret |-> PyBool(TRUE)]]
    /\ UNCHANGED <<memories, memOrder, clock, call, ret, persistent>>

\* system.delete(memory_id): the class defines no such method and __init__
\* sets no such attribute, so the attribute lookup raises AttributeError
\* before anything is called.
delete(memory_id) ==
    /\ "delete" \notin AgenticMemorySystemAttrs
    /\ call' = [op |-> "delete", memory_id |-> memory_id]
    /\ ret' = Raise("AttributeError")
    /\ UNCHANGED <<memories, memOrder, collection, collOrder, clock>>

\* system.retriever.delete_document(memory_id), called by the client on the
\* retriever of the system: the record map is not touched.
retriever_delete_document(memory_id) ==
    /\ "delete_document" \in ChromaRetrieverAttrs
    /\ delete_document(memory_id)
    /\ call' = [op |-> "delete_document", memory_id |-> memory_id]
    /\ ret' = Return(None)
    /\ UNCHANGED <<memories, memOrder, clock>>

\* PersistentChromaRetriever that opens an existing collection whatever
\* extend is.
PersistentChromaRetrieverAnyExtend(collection_name, extend) ==
    LET existing_collections == DOMAIN persistent.collections
    IN  /\ call' = [op |-> "PersistentChromaRetriever",
                    collection_name |-> collection_name, extend |-> extend]
        /\ persistent' =
               [collections |->
                    IF collection_name \in existing_collections
                    THEN persistent.collections
                    ELSE DictSet(persistent.collections, collection_name,
                                 EmptyDict),
                collection_name |-> PyStr(collection_name)]
        /\ ret' = Return(None)

\* PersistentChromaRetriever(directory, collection_name, extend=extend) on
\* the one directory: persistent.collections is what the directory holds,
\* persistent.collection_name the collection of the retriever in use.  An
\* existing name is opened with get_collection when extend is set and
\* refused with ValueError otherwise; a new name is created.
PersistentChromaRetriever(collection_name, extend) ==
    LET existing_collections == DOMAIN persistent.collections
    IN  /\ call' = [op |-> "PersistentChromaRetriever",
                    collection_name |-> collection_name, extend |-> extend]
        /\ IF collection_name \in existing_collections
           THEN IF extend
                THEN /\ persistent' =
                            [persistent EXCEPT
                                !.collection_name = PyStr(collection_name)]
                     /\ ret' = Return(None)
                ELSE /\ ret' = Raise("ValueError")
                     /\ UNCHANGED persistent
           ELSE /\ persistent' =
                       [collections |->
                            DictSet(persistent.collections, collection_name,
                                    EmptyDict),
                        collection_name |-> PyStr(collection_name)]
                /\ ret' = Return(None)

\* add_document on the persistent retriever in use: the document is written
\* to the collection in the directory; an id the collection holds is kept.
persistent_add_document(document, doc_id) ==
    LET name == persistent.collection_name[2]
        stored == persistent.collections[name]
    IN  /\ persistent.collection_name # None
        /\ persistent' =
               [persistent EXCEPT !.collections =
                   DictSet(persistent.collections, name,
                           IF doc_id \in DOMAIN stored THEN stored
                           ELSE DictSet(stored, doc_id, document))]
        /\ call' = [op |-> "add_document", id |-> doc_id]
        /\ ret' = Return(None)

\* `del retriever`: the session ends, the directory keeps its collections.
persistent_del ==
    /\ persistent.collection_name # None
    /\ persistent' = [persistent EXCEPT !.collection_name = None]
    /\ call' = [op |-> "del"]
    /\ ret' = Return(None)

\* read(memory_id) run by thread t, statement by statement; the method
\* takes no lock.  `memory = self.memories.get(memory_id)`: an unknown id
\* returns None at once.
read_begin(t, memory_id) ==
    /\ threads[t].pc = "idle"
    /\ threads' = [threads EXCEPT ![t] =
            IF memory_id \in DOMAIN memories
            THEN [pc |-> "access", memory_id |-> memory_id]
            ELSE [pc |-> "read_done", memory_id |-> memory_id,
                  ret |-> None]]
    /\ UNCHANGED <<memories, memOrder, collection, collOrder, clock, call,
                   ret, persistent>>

\* memory.last_accessed = datetime.now(timezone.utc)
read_access(t) ==
    /\ threads[t].pc = "access"
    /\ clock + 1 <= MaxClock
    /\ clock' = clock + 1
    /\ memories' = DictSet(memories, threads[t].memory_id,
                       [memories[threads[t].memory_id] EXCEPT
                           !.last_accessed = clock])
    /\ threads' = [threads EXCEPT ![t].pc = "load"]
    /\ UNCHANGED <<memOrder, collection, collOrder, call, ret, persistent>>

\* memory.retrieval_count += 1, first half: the count is read.
read_load(t) ==
    /\ threads[t].pc = "load"
    /\ threads' = [threads EXCEPT ![t] =
            [pc |-> "store", memory_id |-> threads[t].memory_id,
             retrieval_count |->
                 memories[threads[t].memory_id].retrieval_count]]
    /\ UNCHANGED <<memories, memOrder, collection, collOrder, clock, call,
                   ret, persistent>>

\* memory.retrieval_count += 1, second half: the count read plus one is
\* assigned; then `return memory`.
read_store(t) ==
    /\ threads[t].pc = "store"
    /\ memories' = DictSet(memories, threads[t].memory_id,
                       [memories[threads[t].memory_id] EXCEPT
                           !.retrieval_count =
                               threads[t].retrieval_count + 1])
    /\ threads' = [threads EXCEPT ![t] =
            [pc |-> "read_done", memory_id |-> threads[t].memory_id,
             ret |-> PyStr(threads[t].memory_id)]]
    /\ UNCHANGED <<memOrder, collection, collOrder, clock, call, ret,
                   persistent>>

\* update_by_keywords(content, **kwargs) with criteria, run by thread t in
\* its steps; the method takes no lock.  The call is entered.
upsert_begin(t, content, kwargs) ==
    /\ threads[t].pc = "idle"
    /\ kwargs # EmptyDict
    /\ threads' = [threads EXCEPT ![t] =
            [pc |-> "filter", content |-> content, kwargs |-> kwargs]]
    /\ UNCHANGED <<memories, memOrder, collection, collOrder, clock, call,
                   ret, persistent>>

\* matching_ids = self._filter_by_keywords(kwargs)
upsert_filter(t) ==
    /\ threads[t].pc = "filter"
    /\ threads' = [threads EXCEPT ![t] =
            [pc |-> "write", content |-> threads[t].content,
             kwargs |-> threads[t].kwargs,
             matching_ids |->
                 _filter_by_keywords(memories, memOrder, threads[t].kwargs)]]
    /\ UNCHANGED <<memories, memOrder, collection, collOrder, clock, call,
                   ret, persistent>>

\* The branch on matching_ids: add_note with the criteria, or update of the
\* first match; then `return True`.
upsert_write(t) ==
    /\ threads[t].pc = "write"
    /\ IF threads[t].matching_ids = <<>>
       THEN add_note_body(threads[t].content, threads[t].kwargs, "added")
       ELSE /\ update_body(threads[t].matching_ids[1],
                           [content |-> PyStr(threads[t].content)],
                           "updated")
            /\ UNCHANGED <<memOrder, clock>>
    /\ threads' = [threads EXCEPT ![t] =
            [pc |-> "upsert_done", content |-> threads[t].content,
             kwargs |-> threads[t].kwargs, ret |-> PyBool(TRUE)]]
    /\ UNCHANGED <<call, ret, persistent>>

\* A direct call of _filter_by_keywords(filter_keywords).
filter_by_keywords(filter_keywords) ==
    /\ call' = [op |-> "_filter_by_keywords",
                filter_keywords |-> filter_keywords]
    /\ ret' = Return(PyList(_filter_by_keywords(memories, memOrder,
                                                filter_keywords)))
    /\ UNCHANGED <<memories, memOrder, collection, collOrder, clock>>

AddNote ==
    \E content \in AddContents, kwargs \in AddKwargs,
       outcome \in {"added", "kept", "replaced", "raise"} :
       add_note(content, kwargs, outcome)
    /\ UNCHANGED <<persistent, threads>>

Read == \E memory_id \in CallIds : read(memory_id)
    /\ UNCHANGED <<persistent, threads>>

Update ==
    \E memory_id \in CallIds, kwargs \in UpdateKwargs,
       outcome \in {"none", "updated", "raise"} :
       update(memory_id, kwargs, outcome)
    /\ UNCHANGED <<persistent, threads>>

Search ==
    \E k \in 0..MaxK, _threshold \in Thresholds, kwargs \in FilterKwargs,
       outcome \in {"found", "raise"} :
       \E hits \in (IF outcome = "raise" THEN {<<>>} ELSE SearchHits(k)) :
          search(k, _threshold, kwargs, hits, outcome)
    /\ UNCHANGED <<persistent, threads>>

Filter == \E filter_keywords \in FilterCriteria :
             filter_by_keywords(filter_keywords)
    /\ UNCHANGED <<persistent, threads>>

UpdateByKeywords ==
    \E content \in Contents, kwargs \in UpsertKwargs,
       outcome \in {"none", "added", "kept", "replaced", "updated", "raise"} :
       update_by_keywords(content, kwargs, outcome)
    /\ UNCHANGED <<persistent, threads>>

AddRecord ==
    \E content \in AddContents, kwargs \in RecordKwargs,
       outcome \in {"added", "replaced"} :
       /\ Len(memOrder) < MaxRecords
       /\ add_note(content, kwargs, outcome)
    /\ UNCHANGED <<persistent, threads>>

UpdateFields ==
    \E memory_id \in CallIds, kwargs \in OverrideKwargs,
       outcome \in {"none", "updated"} :
       update(memory_id, kwargs, outcome)
    /\ UNCHANGED <<persistent, threads>>

UpdateHistory ==
    \E memory_id \in CallIds, kwargs \in HistoryKwargs,
       outcome \in {"none", "updated"} :
       update(memory_id, kwargs, outcome)
    /\ UNCHANGED <<persistent, threads>>

UpsertStored ==
    \E content \in Contents, kwargs \in {EmptyDict, [project |-> PyStr("a")]},
       outcome \in {"none", "added", "replaced", "updated"} :
       /\ \/ Len(memOrder) < MaxRecords
          \/ kwargs = EmptyDict
          \/ _filter_by_keywords(memories, memOrder, kwargs) # <<>>
       /\ update_by_keywords(content, kwargs, outcome)
    /\ UNCHANGED <<persistent, threads>>

NoteUpdate ==
    \E memory_id \in DOMAIN memories, content \in {"c2"},
       update_context \in {None, PyStr("why")}, kwargs \in NoteUpdateKwargs :
       note_update(memory_id, content, update_context, kwargs)
    /\ UNCHANGED <<persistent, threads>>

Construct ==
    \E content \in AddContents, kwargs \in NoteKwargs,
       outcome \in {"added", "replaced"} :
       /\ Len(memOrder) < MaxRecords
       /\ add_note(content, kwargs, outcome)
    /\ UNCHANGED <<persistent, threads>>

RoundTrip == \E memory_id \in DOMAIN memories : roundtrip(memory_id)
    /\ UNCHANGED <<persistent, threads>>

SerializeAll ==
    \E data \in AttributeMaps : registry_serialize_all(data)
    /\ UNCHANGED <<persistent, threads>>

DeserializeAll ==
    \E data \in AttributeMaps : registry_deserialize_all(data)
    /\ UNCHANGED <<persistent, threads>>

\* add_note and update with a backend that stores what it is given
\* (insert or overwrite by id) and never fails.
AddNoteOk ==
    \E content \in AddContents, kwargs \in AddKwargs,
       outcome \in {"added", "replaced"} :
       add_note(content, kwargs, outcome)
    /\ UNCHANGED <<persistent, threads>>

UpdateOk ==
    \E memory_id \in DOMAIN memories, kwargs \in UpdateKwargs :
       update(memory_id, kwargs, "updated")
    /\ UNCHANGED <<persistent, threads>>

\* add_note calls made before any thread has started its update.
AddNoteFirst ==
    /\ \A t \in Threads : threads[t].pc = "idle"
    /\ AddNoteOk

UpdateBegin ==
    \E t \in Threads, memory_id \in (DOMAIN memories) \cup {"missing-id"},
       kwargs \in ThreadKwargs : update_begin(t, memory_id, kwargs)

UpdateAssign == \E t \in Threads : update_assign(t)

UpdateSerialize == \E t \in Threads : update_serialize(t)

UpdatePush == \E t \in Threads : update_push(t)

Delete == \E memory_id \in DOMAIN memories : delete(memory_id)
    /\ UNCHANGED <<persistent, threads>>

DeleteDocument == \E memory_id \in CallIds : retriever_delete_document(memory_id)
    /\ UNCHANGED <<persistent, threads>>

\* retriever.add_document called by a client with metadata of its own.
AddCorruptDocument ==
    /\ add_document(CorruptDocument.document, CorruptDocument.metadata,
                    CorruptDocument.id, "added")
    /\ call' = [op |-> "add_document", id |-> CorruptDocument.id]
    /\ ret' = Return(None)
    /\ UNCHANGED <<memories, memOrder, clock, persistent, threads>>

OpenPersistent ==
    \E collection_name \in CollectionNames, extend \in BOOLEAN :
       PersistentChromaRetriever(collection_name, extend)
    /\ UNCHANGED <<memories, memOrder, collection, collOrder, clock, threads>>

PersistentAdd ==
    \E doc_id \in PersistentDocs : persistent_add_document("c1", doc_id)
    /\ UNCHANGED <<memories, memOrder, collection, collOrder, clock, threads>>

PersistentDel ==
    persistent_del
    /\ UNCHANGED <<memories, memOrder, collection, collOrder, clock, threads>>

ReadBegin ==
    \E t \in Threads, memory_id \in (DOMAIN memories) \cup {"missing-id"} :
       read_begin(t, memory_id)

ReadAccess == \E t \in Threads : read_access(t)

ReadLoad == \E t \in Threads : read_load(t)

ReadStore == \E t \in Threads : read_store(t)

UpsertBegin ==
    \E t \in Threads, content \in Contents, kwargs \in ThreadCriteria :
       upsert_begin(t, content, kwargs)

UpsertFilter == \E t \in Threads : upsert_filter(t)

UpsertWrite == \E t \in Threads : upsert_write(t)

\* The record lifecycle: construction over the retriever in use, add_note,
\* read and update, with the backend failing or not.
Next == __init__ \/ AddNote \/ Read \/ Update

Spec == Init /\ [][Next]_vars

\* The calls of one system that all complete without reporting a failure.
SyncNext == AddNoteOk \/ Read \/ UpdateOk

SyncSpec == Init /\ [][SyncNext]_vars

\* Retrieval: the exact filter and search over the records that
\* construction and add_note leave.
SearchNext == __init__ \/ AddNote \/ Filter \/ Search

SearchSpec == Init /\ [][SearchNext]_vars

\* Upsert: update_by_keywords over the records add_note leaves.
UpsertNext == AddNote \/ UpdateByKeywords

UpsertSpec == Init /\ [][UpsertNext]_vars

\* The fields of the records under add_note, read, update with field
\* overrides and update_by_keywords, with a backend that stores what it is
\* given and never fails.
RecordNext == AddRecord \/ Read \/ UpdateFields \/ UpsertStored

RecordSpec == Init /\ [][RecordNext]_vars

\* The content of the records and its history under add_note, update,
\* MemoryNote.update and update_by_keywords, with the same backend.
HistoryNext == AddRecord \/ UpdateHistory \/ NoteUpdate \/ UpsertStored

HistorySpec == Init /\ [][HistoryNext]_vars

\* MemoryNote alone: construction from an attribute map, MemoryNote.update
\* and the round trip through the storage form.
NoteNext == Construct \/ NoteUpdate \/ RoundTrip

NoteSpec == Init /\ [][NoteNext]_vars

\* The field registry alone: serialize_all and deserialize_all on attribute
\* maps of any kind.
CodecNext == SerializeAll \/ DeserializeAll

CodecSpec == Init /\ [][CodecNext]_vars

\* Two threads that each call update once on the records add_note left.
ConcurrentNext ==
    AddNoteFirst \/ UpdateBegin \/ UpdateAssign \/ UpdateSerialize
    \/ UpdatePush

ConcurrentSpec == Init /\ [][ConcurrentNext]_vars

\* Removal: what a client can call to remove a record that add_note
\* stored, and read after it.
DeleteNext == AddNoteOk \/ Delete \/ DeleteDocument \/ Read

DeleteSpec == Init /\ [][DeleteNext]_vars

\* Loading: construction over a collection that holds the documents of
\* add_note and a document with unusable metadata.
LoadNext == AddNoteOk \/ AddCorruptDocument \/ __init__

LoadSpec == Init /\ [][LoadNext]_vars

\* Sessions of the persistent retriever over one directory.
PersistentNext == OpenPersistent \/ PersistentAdd \/ PersistentDel

PersistentSpec == Init /\ [][PersistentNext]_vars

\* Retrieval after updates: search over records whose fields update has
\* overwritten, the id among them.
SearchUpdatedNext == AddRecord \/ UpdateFields \/ Search

SearchUpdatedSpec == Init /\ [][SearchUpdatedNext]_vars

\* Two threads that each call read once on the records add_note left.
ConcurrentReadNext ==
    AddNoteFirst \/ ReadBegin \/ ReadAccess \/ ReadLoad \/ ReadStore

ConcurrentReadSpec == Init /\ [][ConcurrentReadNext]_vars

\* Two threads that each call update_by_keywords once on a new system.
ConcurrentUpsertNext == UpsertBegin \/ UpsertFilter \/ UpsertWrite

ConcurrentUpsertSpec == Init /\ [][ConcurrentUpsertNext]_vars

------------------------------------------------------------------------------
\* Properties

False == Return(PyBool(FALSE))

\* The fields a load has to restore.
RestoredFields ==
    {"id", "content", "keywords", "tags", "context", "category", "timestamp",
     "retrieval_count"}

\* C1: after constructing a system over a store that holds documents, the
\* record map has exactly the stored ids, and each record agrees with the
\* stored document on content and, through its serialization, on id,
\* content, keywords, tags, context, category, timestamp and retrieval_count.
C1_LoadRestoresStore ==
    call.op = "__init__" =>
        /\ DOMAIN memories = DOMAIN collection
        /\ \A id \in DOMAIN collection :
               /\ memories[id].content = collection[id].document
               /\ \A field \in RestoredFields :
                      _serialize_metadata(memories[id])[field]
                          = collection[id].metadata[field]

\* C2: after add_note, read and update calls that all completed without
\* reporting failure, the store holds under every id of the record map the
\* record's content and the serialization of its current fields.
C2_StoreMirrorsRecords ==
    \A id \in DOMAIN memories :
        /\ id \in DOMAIN collection
        /\ collection[id].document = memories[id].content
        /\ collection[id].metadata = _serialize_metadata(memories[id])

\* An add_note step whose id is in neither the record map nor the store.
FreshAdd ==
    /\ call'.op = "add_note"
    /\ call'.id \notin (DOMAIN memories) \cup (DOMAIN collection)

\* The record stored under the id of the add_note call has the content and
\* the attributes of the call: declared fields in their slots, the other
\* keys in extras as strings.
AddedAsGiven ==
    LET note == memories'[call'.id]
        kwargs == call'.kwargs
    IN  /\ DOMAIN memories' = (DOMAIN memories) \cup {call'.id}
        /\ Len(memOrder') = Len(memOrder) + 1
        /\ \A id \in DOMAIN memories : memories'[id] = memories[id]
        /\ note.id = call'.id
        /\ note.content = call'.content
        /\ \A key \in (DOMAIN kwargs) \cap known_fields :
               note[key] = kwargs[key][2]
        /\ DOMAIN note.extras = (DOMAIN kwargs) \ known_fields
        /\ \A key \in DOMAIN note.extras : note.extras[key] = str(kwargs[key])

\* add_note returned the id and the store holds the text under it.
AddedAndStored ==
    /\ ret' = Return(PyStr(call'.id))
    /\ call'.id \in DOMAIN collection'
    /\ collection'[call'.id].document = call'.content

\* C3 as claimed: every add_note with a fresh id returns the id, adds the
\* one record as given and leaves the text in the store under the id.
C3_AddAlwaysStored ==
    [][FreshAdd => AddedAsGiven /\ AddedAndStored]_vars

\* C3, amended: every add_note with a fresh id adds exactly the one record
\* as given to the record map; when the push to the store succeeds it
\* returns the id and the store holds the text under that id, and when the
\* push fails the store holds nothing under the id.
C3_AddNote ==
    [][FreshAdd =>
          /\ AddedAsGiven
          /\ IF call'.outcome = "raise"
             THEN call'.id \notin DOMAIN collection'
             ELSE AddedAndStored]_vars

C3_Witness ==
    /\ call.op = "add_note"
    /\ call.id = "u2"
    /\ call.kwargs = [project |-> PyStr("a"), priority |-> PyInt(1)]
    /\ ret = Return(PyStr("u2"))
    /\ memOrder = <<"u1", "u2">>
    /\ memories["u2"].extras = [project |-> "a", priority |-> "1"]
    /\ collection["u2"].document = "c1"

\* C4: read of a known id returns the record with retrieval_count one
\* higher and last_accessed set to the time of the read, and changes no
\* other record; read of an unknown id returns None and changes no record.
C4_Read ==
    [][call'.op = "read" =>
          LET id == call'.memory_id
          IN  IF id \in DOMAIN memories
              THEN /\ ret' = Return(<<"note", memories'[id]>>)
                   /\ memories'[id].retrieval_count
                          = memories[id].retrieval_count + 1
                   /\ memories'[id].last_accessed = clock
                   /\ memories'[id].last_accessed > memories[id].last_accessed
                   /\ DOMAIN memories' = DOMAIN memories
                   /\ \A other \in (DOMAIN memories) \ {id} :
                          memories'[other] = memories[other]
              ELSE /\ ret' = Return(None)
                   /\ memories' = memories]_vars

\* Two reads of the record added first: its count went from 0 to 2.
C4_Witness ==
    /\ call.op = "read"
    /\ ret.value[1] = "note"
    /\ ret.value[2].retrieval_count = 2
    /\ ret.value[2].last_accessed = 3

\* C5: when the push fails during update of a known id, update returns
\* False, the record has the newly assigned field values, and the store is
\* unchanged.
C5_UpdatePushFails ==
    [][(/\ call'.op = "update"
        /\ call'.memory_id \in DOMAIN memories
        /\ call'.outcome = "raise") =>
          LET id == call'.memory_id
              kwargs == call'.kwargs
          IN  /\ ret' = False
              /\ \A key \in (DOMAIN kwargs) \cap (known_fields \cup {"extras"}) :
                     memories'[id][key] = kwargs[key][2]
              /\ collection' = collection]_vars

C5_Witness ==
    /\ call.op = "update"
    /\ call.outcome = "raise"
    /\ ret = False
    /\ call.memory_id \in (DOMAIN memories) \cap (DOMAIN collection)
    /\ memories[call.memory_id].content = "c2"
    /\ collection[call.memory_id].document = "c1"

\* C6: update of an id that is not in the record map returns False, leaves
\* the record map as it was and makes no call to the store.
C6_UpdateUnknownId ==
    [][(/\ call'.op = "update"
        /\ call'.memory_id \notin DOMAIN memories) =>
          /\ ret' = False
          /\ memories' = memories
          /\ memOrder' = memOrder
          /\ call'.outcome = "none"
          /\ collection' = collection]_vars

\* update of an id the store holds and the record map does not, on a
\* system that has a record.
C6_Witness ==
    /\ call.op = "update"
    /\ call.memory_id \notin DOMAIN memories
    /\ call.memory_id \in DOMAIN collection
    /\ memories # EmptyDict
    /\ ret = False

\* C7: a store failure during add_note or update never leaves the call as
\* an exception.
C7_FailureNeverEscapes ==
    call.op \in {"add_note", "update"} => ret.kind # "raise"

\* extras is the map criteria: the same keys, and under each key the same
\* string.
ExtrasEqual(extras, criteria) ==
    /\ DOMAIN extras = DOMAIN criteria
    /\ \A key \in DOMAIN criteria :
           /\ IsStr(criteria[key])
           /\ extras[key] = criteria[key][2]

\* The keys of the record map, in iteration order, whose record has extras
\* equal to criteria.
RECURSIVE EqualExtrasIds(_, _)
EqualExtrasIds(order, criteria) ==
    IF order = <<>> THEN <<>>
    ELSE (IF ExtrasEqual(memories[Head(order)].extras, criteria)
          THEN <<Head(order)>> ELSE <<>>)
         \o EqualExtrasIds(Tail(order), criteria)

StrCriteria ==
    [key \in {x \in DOMAIN call.kwargs : IsStr(call.kwargs[x])} |->
        call.kwargs[key]]

\* The records of the map that the criteria of the last search select.
ExactMatchIds ==
    IF StrCriteria = EmptyDict THEN {}
    ELSE {id \in DOMAIN memories :
             ExtrasEqual(memories[id].extras, StrCriteria)}

\* A result entry that is the snapshot of an exact-filter match.
IsExactMatch(entry) ==
    \E id \in ExactMatchIds : entry = model_dump(memories[id])

SearchReturned == call.op = "search" /\ ret.kind = "return"

\* C9: in a search result, wherever an entry that is not an exact-filter
\* match stands, every exact-filter match stands before it.
C9_ExactMatchesFirst ==
    SearchReturned =>
        LET result == ret.value[2]
            n == Cardinality(ExactMatchIds)
        IN  \A j \in 1..Len(result) :
                ~IsExactMatch(result[j]) =>
                    /\ n < j
                    /\ \A i \in 1..n : IsExactMatch(result[i])

\* An exact match at index 1 and a similarity-only record at index 2 that
\* the store ranked nearer than the exact match.
C9_Witness ==
    /\ SearchReturned
    /\ Len(ret.value[2]) = 2
    /\ IsExactMatch(ret.value[2][1])
    /\ ~IsExactMatch(ret.value[2][2])
    /\ Len(call.hits) = 2
    /\ call.hits[1].id = ret.value[2][2].id
    /\ call.hits[2].id = ret.value[2][1].id
    /\ call.hits[1].distance < call.hits[2].distance

\* C10 as claimed: no hit with a distance above the threshold is in the
\* result.
C10_NoHitAboveThreshold ==
    SearchReturned =>
        LET result == ret.value[2]
        IN  \A h \in 1..Len(call.hits) :
                call.hits[h].distance > call._threshold =>
                    \A i \in 1..Len(result) : result[i].id # call.hits[h].id

\* C10, amended: a hit with a distance above the threshold is in the result
\* only as an exact-filter match.
C10_HitAboveThresholdOnlyAsExactMatch ==
    SearchReturned =>
        LET result == ret.value[2]
        IN  \A h \in 1..Len(call.hits) :
                call.hits[h].distance > call._threshold =>
                    \A i \in 1..Len(result) :
                        result[i].id = call.hits[h].id =>
                            IsExactMatch(result[i])

\* A hit within the threshold is returned and a hit above it is left out.
C10_Witness ==
    /\ SearchReturned
    /\ Len(call.hits) = 2
    /\ call.hits[1].distance <= call._threshold
    /\ call.hits[2].distance > call._threshold
    /\ Len(ret.value[2]) = 1
    /\ ret.value[2][1].id = call.hits[1].id

\* The ids of the exact-filter matches of the last search, in map-iteration
\* order.
ExactMatchOrder ==
    IF StrCriteria = EmptyDict THEN <<>>
    ELSE EqualExtrasIds(memOrder, StrCriteria)

\* C11: a search that returns gives at most k results, for every k >= 0;
\* when the exact-filter matches alone number more than k the result is the
\* first k of them in map-iteration order; on a system with no record and
\* no stored document the result is the empty list.
C11_AtMostK ==
    SearchReturned =>
        LET result == ret.value[2]
            k == call.k
        IN  /\ Len(result) <= k
            /\ Len(ExactMatchOrder) > k =>
                   /\ Len(result) = k
                   /\ \A i \in 1..k :
                          result[i] = model_dump(memories[ExactMatchOrder[i]])
            /\ (memories = EmptyDict /\ collection = EmptyDict) =>
                   result = <<>>

\* Two records match the criteria and k is 1: the result is the record
\* added first.
C11_Witness ==
    /\ SearchReturned
    /\ call.k = 1
    /\ ExactMatchOrder = <<"u1", "u2">>
    /\ ret.value[2] = <<model_dump(memories["u1"])>>

\* An update_by_keywords step that follows an update_by_keywords call which
\* found no match for the same, non-empty, criteria.
SecondUpsert ==
    /\ call.op = "update_by_keywords"
    /\ call.path = "add"
    /\ call'.op = "update_by_keywords"
    /\ call'.kwargs = call.kwargs

\* C12: update_by_keywords with non-empty criteria that no record matches
\* creates exactly one record, and a second call with the same criteria
\* creates none: it sets the content of the record the first call created.
C12_UpsertTwiceOneRecord ==
    [][/\ (call'.op = "update_by_keywords" /\ call'.path = "add") =>
              /\ DOMAIN memories' = (DOMAIN memories) \cup {call'.id}
              /\ call'.id \notin DOMAIN memories
       /\ SecondUpsert =>
              /\ call'.path = "update"
              /\ call'.id = call.id
              /\ DOMAIN memories' = DOMAIN memories
              /\ memories'[call.id].content = call'.content]_vars

ContentUpdateOf(id) ==
    \/ call'.op = "MemoryNote.update" /\ id = call'.memory_id
    \/ /\ call'.op = "update"
       /\ id = call'.memory_id
       /\ "content" \in DOMAIN call'.kwargs
    \/ /\ call'.op = "update_by_keywords"
       /\ call'.path = "update"
       /\ id = call'.id

\* C14: every update that changes the content of a record makes its
\* memory_update_history one entry longer, and no step makes the history
\* of a record shorter.
C14_HistoryGrowsByOne ==
    [][\A id \in DOMAIN memories :
          /\ (ContentUpdateOf(id)
                 /\ memories'[id].content # memories[id].content) =>
                 Len(memories'[id].memory_update_history)
                     = Len(memories[id].memory_update_history) + 1
          /\ id \in DOMAIN memories' =>
                 Len(memories'[id].memory_update_history)
                     >= Len(memories[id].memory_update_history)]_vars

\* C15: every record has as many history entries as update contexts, and
\* at least one; right after add_note the two lists hold exactly the
\* content and the creation marker.
C15_HistoryListsParallel ==
    /\ \A id \in DOMAIN memories :
           /\ Len(memories[id].memory_update_history)
                  = Len(memories[id].memory_update_context)
           /\ Len(memories[id].memory_update_history) >= 1
    /\ call.op = "add_note" =>
           /\ memories[call.id].memory_update_history = <<call.content>>
           /\ memories[call.id].memory_update_context
                  = <<"Initial memory creation.">>

\* C16: no step lowers the retrieval_count of a record.
C16_RetrievalCountNeverDecreases ==
    [][\A id \in DOMAIN memories :
          id \in DOMAIN memories' =>
              memories'[id].retrieval_count >= memories[id].retrieval_count]_vars

\* C17: the record stored under a key of the record map has that key as
\* its id.
C17_IdIsKey ==
    \A k \in DOMAIN memories : memories[k].id = k

SuppliesTime ==
    /\ "kwargs" \in DOMAIN call'
    /\ (DOMAIN call'.kwargs) \cap {"timestamp", "last_accessed"} # {}

C19_RoundTrip ==
    call.op = "roundtrip" =>
        \A field \in known_fields \cup {"extras"} :
            ret.value[2][field] = memories[call.memory_id][field]

\* C20: right after constructing a note from an attribute map, no key of
\* extras is the name of a fixed-schema field, every attribute outside the
\* fixed schema is in extras as a string, and every fixed-schema attribute
\* is in its typed slot.
C20_ExtrasPartition ==
    call.op = "add_note" =>
        LET note == memories[call.id]
            kwargs == call.kwargs
        IN  /\ (DOMAIN note.extras) \cap known_fields = {}
            /\ \A key \in (DOMAIN kwargs) \ (known_fields \cup {"extras"}) :
                   /\ key \in DOMAIN note.extras
                   /\ note.extras[key] = str(kwargs[key])
            /\ \A key \in (DOMAIN kwargs) \cap known_fields :
                   note[key] = kwargs[key][2]

\* C21: a note constructed with an explicit extras map and directly named
\* non-schema attributes has as extras the union of the two, the directly
\* named value under a key that both give; the extras map of the caller
\* holds what it held.
C21_ExtrasMerged ==
    (call.op = "add_note" /\ "extras" \in DOMAIN call.kwargs) =>
        LET kwargs == call.kwargs
            given == kwargs["extras"][2]
            named == (DOMAIN kwargs) \ (known_fields \cup {"extras"})
            extras == memories[call.id].extras
        IN  /\ DOMAIN extras = (DOMAIN given) \cup named
            /\ \A key \in named : extras[key] = str(kwargs[key])
            /\ \A key \in (DOMAIN given) \ named : extras[key] = given[key]
            /\ call.extras_arg = kwargs["extras"]

\* extras {project: "b"} and project = "a" given directly: the note has
\* project "a", the caller's map still has "b".
C21_Witness ==
    /\ call.op = "add_note"
    /\ "extras" \in DOMAIN call.kwargs
    /\ call.kwargs["extras"][2] = [project |-> "b"]
    /\ call.kwargs["project"] = PyStr("a")
    /\ memories[call.id].extras = [project |-> "a"]
    /\ call.extras_arg = PyDict([project |-> "b"])

\* C22: serialize_all and deserialize_all return a result, whatever the
\* attribute map.
C22_CodecNeverRaises ==
    call.op \in {"serialize_all", "deserialize_all"} => ret.kind = "return"

\* C23: the metadata that a completed add_note or update pushed to the store
\* is, field by field, the registry's serialization of the record, the count
\* being a decimal string.
C23_MetadataIsRegistrySerialization ==
    \A id \in DOMAIN memories :
        (/\ call.op \in {"add_note", "update"}
         /\ ret.kind = "return"
         /\ id \in DOMAIN collection
         /\ collection[id].document = memories[id].content)
        => collection[id].metadata = serialize_for_storage(memories[id])

\* C24: when the update calls of all threads were made on the same id and
\* have all returned True, the store's document for the id is the record's
\* content.
C24_ConcurrentUpdatesSerialized ==
    \A id \in DOMAIN memories :
        (\A t \in Threads :
            /\ threads[t].pc = "done"
            /\ threads[t].memory_id = id
            /\ threads[t].ret = PyBool(TRUE))
        => /\ id \in DOMAIN collection
           /\ collection[id].document = memories[id].content

\* C25: a delete call of the memory system on the id of a record returns,
\* and the id is afterwards in neither the record map nor the store (so that
\* read finds nothing and search cannot return it).
C25_DeleteRemovesEverywhere ==
    call.op = "delete"
    => /\ ret.kind = "return"
       /\ call.memory_id \notin DOMAIN memories
       /\ call.memory_id \notin DOMAIN collection

\* C26: after constructing a system over a store that holds a document
\* whose metadata gives no MemoryNote, every other stored document is in the
\* record map.
C26_CorruptDocumentSkipped ==
    (/\ call.op = "__init__"
     /\ \E id \in DOMAIN collection : ~Validates(collection[id].metadata))
    => \A id \in DOMAIN collection :
           Validates(collection[id].metadata) => id \in DOMAIN memories

\* C27: opening a persistent retriever on a name the directory holds fails
\* with ValueError and changes nothing when extend is false, and with
\* extend true opens the collection with the documents stored before; a
\* name the directory does not hold is created, whatever extend is.
C27_OpenRespectsExtend ==
    [][call'.op = "PersistentChromaRetriever" =>
        IF call'.collection_name \in DOMAIN persistent.collections
        THEN IF call'.extend
             THEN /\ ret'.kind = "return"
                  /\ persistent'.collection_name
                         = PyStr(call'.collection_name)
                  /\ persistent'.collections = persistent.collections
             ELSE /\ ret' = Raise("ValueError")
                  /\ persistent' = persistent
        ELSE /\ ret'.kind = "return"
             /\ persistent'.collection_name = PyStr(call'.collection_name)
             /\ call'.collection_name \in DOMAIN persistent'.collections
             /\ \A name \in DOMAIN persistent.collections :
                    persistent'.collections[name]
                        = persistent.collections[name]]_vars

\* A collection that holds a document was opened again with extend.
C27_Witness ==
    /\ call.op = "PersistentChromaRetriever"
    /\ call.extend
    /\ ret.kind = "return"
    /\ persistent.collection_name = PyStr(call.collection_name)
    /\ persistent.collections[call.collection_name] # EmptyDict

\* C28: a search that returns gives exactly the snapshots of the
\* exact-filter matches in map-iteration order (none without string-valued
\* criteria), then, in the store's order, the hits whose id is not the id of
\* one of those snapshots and whose distance is at most the threshold - the
\* snapshot of the record when the map holds the id, else {id, content} -
\* cut to the first k entries.
C28_SearchResultExactly ==
    SearchReturned =>
        LET exact == [i \in 1..Len(ExactMatchOrder) |->
                         model_dump(memories[ExactMatchOrder[i]])]
            matched == {exact[i].id : i \in 1..Len(exact)}
            Kept(hit) == /\ hit.id \notin matched
                         /\ hit.distance <= call._threshold
            kept == SelectSeq(call.hits, Kept)
            similar == [i \in 1..Len(kept) |->
                           IF kept[i].id \in DOMAIN memories
                           THEN model_dump(memories[kept[i].id])
                           ELSE [id |-> kept[i].id,
                                 content |-> collection[kept[i].id].document]]
            all == exact \o similar
        IN  ret.value[2] =
                [i \in 1..(IF call.k < Len(all) THEN call.k ELSE Len(all))
                    |-> all[i]]

\* An exact match first, then the projection of a stored document the map
\* does not hold, while the store ranked the exact match among its hits too.
C28_Witness ==
    /\ SearchReturned
    /\ Len(ret.value[2]) = 2
    /\ Len(call.hits) = 2
    /\ IsExactMatch(ret.value[2][1])
    /\ DOMAIN ret.value[2][2] = {"id", "content"}
    /\ ret.value[2][2].id \notin DOMAIN memories
    /\ \E h \in 1..2 : call.hits[h].id = ret.value[2][1].id

\* C29: every update that changes the content of a record (MemoryNote.update,
\* update with content, update_by_keywords on a match) sets the record's
\* last_accessed to the time of the update.
C29_ContentUpdateRefreshesAccess ==
    [][\A id \in DOMAIN memories :
          (ContentUpdateOf(id)
              /\ memories'[id].content # memories[id].content) =>
              memories'[id].last_accessed = clock]_vars

\* C30: MemoryNote.update leaves extras and the set of attributes as they
\* were, whatever keys its kwargs hold, changes no field besides content,
\* the two history lists, last_accessed and the fields its kwargs name, and
\* sets last_accessed to the time of the update even when kwargs supply a
\* last_accessed.
C30_NoteUpdateIgnoresUnknownAndAccess ==
    [][call'.op = "MemoryNote.update" =>
        LET id == call'.memory_id
            touched == {"content", "memory_update_history",
                        "memory_update_context", "last_accessed"}
                       \cup DOMAIN call'.kwargs
        IN  /\ DOMAIN memories'[id] = DOMAIN memories[id]
            /\ memories'[id].extras = memories[id].extras
            /\ \A field \in (DOMAIN memories[id]) \ touched :
                   memories'[id][field] = memories[id][field]
            /\ memories'[id].last_accessed = clock]_vars

\* A MemoryNote.update was given a key that is no attribute and a
\* last_accessed other than the time of the update.
C30_Witness ==
    /\ call.op = "MemoryNote.update"
    /\ "project" \in DOMAIN call.kwargs
    /\ "last_accessed" \in DOMAIN call.kwargs
    /\ "project" \notin DOMAIN memories[call.memory_id].extras
    /\ memories[call.memory_id].last_accessed # call.kwargs.last_accessed[2]
    /\ memories[call.memory_id].category = "cat"

\* C31: update changes only the fields of MemoryNote its kwargs name: every
\* other field keeps its value, and an update whose keys are no field of
\* MemoryNote leaves the record, its extras included, as it was.
C31_UpdateOnlyDeclaredFields ==
    [][(call'.op = "update" /\ call'.memory_id \in DOMAIN memories) =>
        LET id == call'.memory_id
            named == (DOMAIN call'.kwargs) \cap (known_fields \cup {"extras"})
        IN  /\ DOMAIN memories'[id] = DOMAIN memories[id]
            /\ \A field \in (DOMAIN memories[id]) \ named :
                   memories'[id][field] = memories[id][field]
            /\ named = {} => memories'[id] = memories[id]]_vars

\* update(id, project='z') returned True on a record whose extras hold
\* project = 'a', and they still do.
C31_Witness ==
    /\ call.op = "update"
    /\ call.kwargs = [project |-> PyStr("z")]
    /\ call.memory_id \in DOMAIN memories
    /\ ret = Return(PyBool(TRUE))
    /\ "project" \in DOMAIN memories[call.memory_id].extras
    /\ memories[call.memory_id].extras.project = "a"

\* The content of the last update_by_keywords call is what the store holds
\* under the id the call inserted or updated.
UpsertReachedStore ==
    /\ call.path # "none"
    /\ call.id \in DOMAIN collection
    /\ collection[call.id].document = call.content

\* C32: update_by_keywords returns a boolean: True when it inserted a
\* record or updated the match and the change reached the store, False
\* otherwise (empty criteria, or the update of the match reported failure).
C32_UpsertReturnsSuccess ==
    call.op = "update_by_keywords" =>
        /\ ret.kind = "return"
        /\ ret.value = PyBool(UpsertReachedStore)

\* The fields of the last deserialize_all call that have the handler.
FieldsOfHandler(handler) ==
    {field_name \in DOMAIN call.data :
        /\ field_name \in DOMAIN memory_note_field_registry
        /\ memory_note_field_registry[field_name] = handler}

\* C33: the List handler deserializes every input to a list (a list is
\* passed through, anything that is no list and no string gives the empty
\* list) and the Dict handler every input to a dict (a dict is passed
\* through, anything that is no dict and no string gives the empty dict).
C33_ListAndDictAlwaysDeserialize ==
    (call.op = "deserialize_all" /\ ret.kind = "return") =>
        /\ \A field_name \in FieldsOfHandler("List") :
               LET value == call.data[field_name]
                   result == ret.value[2][field_name]
               IN  /\ result[1] = "list"
                   /\ value[1] = "list" => result = value
                   /\ (value[1] # "list" /\ ~IsPyStr(value)) =>
                          result = PyList(<<>>)
        /\ \A field_name \in FieldsOfHandler("Dict") :
               LET value == call.data[field_name]
                   result == ret.value[2][field_name]
               IN  /\ result[1] = "dict"
                   /\ value[1] = "dict" => result = value
                   /\ (value[1] # "dict" /\ ~IsPyStr(value)) =>
                          result = PyDict(EmptyDict)

\* C34: a construction over a valid retriever returns, and when the
\* enumeration or the load of the stored documents failed the record map is
\* empty.
C34_ConstructionCompletes ==
    (call.op = "__init__" /\ "caught" \in DOMAIN call) =>
        /\ ret = Return(None)
        /\ call.caught # "none" => memories = EmptyDict /\ memOrder = <<>>

\* A construction over a store that holds a document returned after the
\* load failed.
C34_Witness ==
    /\ call.op = "__init__"
    /\ "caught" \in DOMAIN call
    /\ call.caught # "none"
    /\ collection # EmptyDict
    /\ ret = Return(None)
    /\ memories = EmptyDict

\* C35: a search step leaves the record map, every field of every record
\* included, and the store as they were.
C35_SearchChangesNothing ==
    [][call'.op = "search" =>
        /\ memories' = memories
        /\ memOrder' = memOrder
        /\ collection' = collection
        /\ collOrder' = collOrder]_vars

\* A search returned a record of the map, which still counts no retrieval.
C35_Witness ==
    /\ SearchReturned
    /\ Len(ret.value[2]) >= 1
    /\ ret.value[2][1].id \in DOMAIN memories
    /\ ret.value[2][1] = model_dump(memories[ret.value[2][1].id])
    /\ memories[ret.value[2][1].id].retrieval_count = 0

\* C36: no two entries of a search result have the same id.
C36_NoIdTwiceInResult ==
    SearchReturned =>
        \A i, j \in 1..Len(ret.value[2]) :
            i < j => ret.value[2][i].id # ret.value[2][j].id

\* C37: when the read calls of all threads were made on the same record,
\* new from add_note, and have all returned, the record's retrieval_count
\* is the number of threads.
C37_ConcurrentReadsAllCounted ==
    \A id \in DOMAIN memories :
        (\A t \in Threads :
            /\ threads[t].pc = "read_done"
            /\ threads[t].memory_id = id)
        => memories[id].retrieval_count = Cardinality(Threads)

\* C38: when the update_by_keywords calls of all threads, made on a system
\* without records and with the same criteria, have all returned, exactly
\* one record has the criteria as its extras.
C38_ConcurrentUpsertOneRecord ==
    \A kwargs \in ThreadCriteria :
        (\A t \in Threads :
            /\ threads[t].pc = "upsert_done"
            /\ threads[t].kwargs = kwargs)
        => Len(_filter_by_keywords(memories, memOrder, kwargs)) = 1

====
